---- MODULE Spec2Model ----
(***************************************************************************)
(* The technical-indicator engine of the trading advisor skill             *)
(* (src/agent/skills/trading_advisor/technical_analysis.py).               *)
(*                                                                         *)
(* Numbers.  A Python float is modelled by the rational <<n, d>> (lowest   *)
(* terms, d > 0) it approximates.  A float holds a rational exactly when   *)
(* the denominator is a power of two (Dyadic); the values here are small,  *)
(* so any other float is within about 1e-16 of its rational.  round(x, k)  *)
(* is correctly rounded in Python: away from a tie the rational decides    *)
(* the result; on a tie held exactly it goes to the even neighbour; on a   *)
(* tie not held exactly the float's last bit decides, which the rational   *)
(* does not tell.  compute_macd is therefore modelled on the inputs where  *)
(* no such tie occurs (MacdFaithful).  In compute_bollinger_bands and in   *)
(* the roundings of compute_indicators such a tie is a choice: the sign of *)
(* the float's error (-1, 0, 1) is drawn from the signs the computation    *)
(* can have (ErrSigns, BollErrs, IndErrs) and RoundErr rounds the tie that *)
(* way.  Python's None is the pair <<0, 0>>, which is no rational, so a    *)
(* marker never equals a number, 0 included.                               *)
(*                                                                         *)
(* State.  The functions are pure: the state is the input series `close`,  *)
(* the position of the one caller (`pc`), and the value the last call      *)
(* returned (`ret`).  Spec calls the indicator functions one at a time on  *)
(* short series; SpecInd calls compute_indicators, whose periods are fixed *)
(* (14, 20, 26 + 9, 50, 200), on series of up to 201 closes.  SpecCalls    *)
(* calls compute_indicators repeatedly with its five lists, aligned or     *)
(* not, and keeps a log of the calls.                                      *)
(*                                                                         *)
(* The service around the engine (src/agent/main.py, agent_core.py).       *)
(* SpecStream follows one /chat/stream request through event_generator and *)
(* stream_agent_response, with an exception possible wherever the code     *)
(* calls out.  SpecSession runs several requests through ensure_session,   *)
(* the event loop switching between them at each await.                    *)
(***************************************************************************)
EXTENDS Integers, Sequences, FiniteSets

\* ------------------------------------------------------------------ bounds
MaxLen == 6
MaxPrice == 1
MaxPeriod == 3
LongSlack == 1
MaxDelta == 2

\* ------------------------------------------------------- program constants
SMA_SHORT == 20
RSI_DECIMALS == 2
MACD_DECIMALS == 4
BB_DECIMALS == 2
BB_STD_DEV == 2
SMA_MID == 50
SMA_LONG == 200
RSI_PERIOD == 14
MACD_FAST == 12
MACD_SLOW == 26
MACD_SIGNAL == 9
BB_PERIOD == 20
OVERBOUGHT == 70
OVERSOLD == 30
TREND_DAYS == 30
TREND_PCT == 2
LATEST_DECIMALS == 2
SHOWN_DECIMALS == 1

\* ------------------------------------------------------------- arithmetic
None == <<0, 0>>

IsNone(x) == x[2] = 0

Abs(x) == IF x < 0 THEN -x ELSE x

RECURSIVE GCD(_, _)
GCD(a, b) == IF b = 0 THEN a ELSE GCD(b, a % b)

\* n/d in lowest terms, d > 0
Norm(n, d) == LET g == GCD(Abs(n), d) IN <<n \div g, d \div g>>

Float(n) == <<n, 1>>

Add(x, y) ==
    LET g == GCD(x[2], y[2])
    IN  Norm(x[1] * (y[2] \div g) + y[1] * (x[2] \div g), (x[2] \div g) * y[2])

Neg(x) == <<-x[1], x[2]>>

Sub(x, y) == Add(x, Neg(y))

Mul(x, y) ==
    LET g1 == GCD(Abs(x[1]), y[2])
        g2 == GCD(Abs(y[1]), x[2])
    IN  Norm((x[1] \div g1) * (y[1] \div g2), (x[2] \div g2) * (y[2] \div g1))

\* y # 0
Div(x, y) == Mul(x, IF y[1] < 0 THEN <<-y[2], -y[1]>> ELSE <<y[2], y[1]>>)

\* x < y and x <= y, by the sign of x - y
Less(x, y) == Sub(x, y)[1] < 0

Leq(x, y) == Sub(x, y)[1] <= 0

IsZero(x) == x[2] # 0 /\ x[1] = 0

\* max(x, 0)
Max0(x) == IF x[1] > 0 THEN x ELSE Float(0)

RECURSIVE Pow10(_)
Pow10(k) == IF k = 0 THEN 1 ELSE 10 * Pow10(k - 1)

\* round(x, k): the nearest multiple of 10^-k, a tie going to the even one
Round(x, k) ==
    LET s == Mul(x, Float(Pow10(k)))
        q == s[1] \div s[2]
        r == s[1] % s[2]
        up == 2 * r > s[2] \/ (2 * r = s[2] /\ q % 2 = 1)
    IN  Norm(IF up THEN q + 1 ELSE q, Pow10(k))

RECURSIVE IsPow2(_)
IsPow2(d) == d = 1 \/ (d > 1 /\ d % 2 = 0 /\ IsPow2(d \div 2))

\* a double holds x exactly
Dyadic(x) == IsPow2(x[2])

\* every element is held exactly by a double
DyadicSeq(xs) == \A i \in 1..Len(xs) : Dyadic(xs[i])

\* x lies half way between two neighbouring multiples of 10^-k
IsTie(x, k) == Mul(x, Float(Pow10(k)))[2] = 2

RECURSIVE ISqrtSearch(_, _, _)
\* the largest s in lo..hi with s * s <= n  (lo * lo <= n)
ISqrtSearch(n, lo, hi) ==
    IF lo >= hi THEN lo
    ELSE LET mid == (lo + hi + 1) \div 2
         IN  IF mid * mid <= n THEN ISqrtSearch(n, mid, hi)
                               ELSE ISqrtSearch(n, lo, mid - 1)

\* floor(sqrt(n)) of a natural number n
ISqrt(n) == ISqrtSearch(n, 0, IF n < 46340 THEN n ELSE 46340)

IsSquare(n) == ISqrt(n) * ISqrt(n) = n

\* math.sqrt(v) is a rational: v >= 0 in lowest terms, both parts squares
HasRationalSqrt(v) == IsSquare(v[1]) /\ IsSquare(v[2])

Sqrt(v) == <<ISqrt(v[1]), ISqrt(v[2])>>

\* m + c * sqrt(v) >= z
SurdGeq(m, c, v, z) ==
    LET w == Sub(z, m)
        r == Mul(Mul(c, c), v)
    IN  IF c[1] >= 0 THEN w[1] <= 0 \/ Leq(Mul(w, w), r)
                     ELSE w[1] <= 0 /\ Leq(r, Mul(w, w))

\* round(x, k) of the float that holds the real number x with a rounding error
\* of sign e (-1 below x, 0 exact, 1 above x): the error decides a tie
RoundErr(x, k, e) ==
    IF e # 0 /\ IsTie(x, k) THEN Add(x, Norm(e, 2 * Pow10(k))) ELSE Round(x, k)

\* the error signs a float computation of the real number x can end with:
\* none when every step is exact, and never 0 when no double holds x;
\* only a tie of round(.., k) is sensitive to them
ErrSigns(x, k, exact) ==
    IF exact \/ ~IsTie(x, k) THEN {0}
    ELSE IF Dyadic(x) THEN {-1, 0, 1} ELSE {-1, 1}

\* round(m + c * math.sqrt(v), k) with error sign e: a rational when c = 0 or
\* the root is rational; else the value is irrational, no tie exists, and the
\* nearest multiple is found by comparing squares
RoundSurd(m, c, v, k, e) ==
    IF c[1] = 0 THEN RoundErr(m, k, e)
    ELSE IF HasRationalSqrt(v) THEN RoundErr(Add(m, Mul(c, Sqrt(v))), k, e)
    ELSE LET scale == Float(Pow10(k))
             y == Mul(m, scale)
             cs == Mul(c, scale)
             r == Mul(Mul(cs, cs), v)
             base == y[1] \div y[2]
             root == ISqrt(r[1] \div r[2])
             near == IF c[1] >= 0 THEN base + root ELSE base - root
             half == Norm(1, 2)
             u == CHOOSE n \in (near - 2)..(near + 2) :
                     /\ SurdGeq(y, cs, v, Sub(Float(n), half))
                     /\ ~SurdGeq(y, cs, v, Add(Float(n), half))
         IN  Norm(u, Pow10(k))

RECURSIVE Sum(_)
\* sum(s), added up half by half
Sum(s) ==
    IF Len(s) = 0 THEN Float(0)
    ELSE IF Len(s) = 1 THEN s[1]
    ELSE LET h == Len(s) \div 2
         IN  Add(Sum(SubSeq(s, 1, h)), Sum(SubSeq(s, h + 1, Len(s))))

\* s[a:b] of Python (0-based, b exclusive, both clipped to the list)
Slice(s, a, b) ==
    LET lo == IF a > Len(s) THEN Len(s) ELSE a
        hi == IF b > Len(s) THEN Len(s) ELSE b
    IN  IF hi <= lo THEN <<>> ELSE SubSeq(s, lo + 1, hi)

\* [None] * n  (the empty list when n <= 0)
Nones(n) == [i \in 1..n |-> None]

\* ------------------------------------------------------------ _ema, _sma
\* the pass of the _ema loop with k and 1 - k exchanged
EmaStep_swapped(price, k, ema_values) ==
    Append(ema_values, Add(Mul(price, Sub(Float(1), k)),
                           Mul(ema_values[Len(ema_values)], k)))

\* ema_values.append(price * k + ema_values[-1] * (1 - k))
EmaStep(price, k, ema_values) ==
    Append(ema_values, Add(Mul(price, k),
                           Mul(ema_values[Len(ema_values)], Sub(Float(1), k))))

RECURSIVE EmaLoop(_, _, _, _)
\* the for loop of _ema over rest = prices[period:], run until ema_values has
\* stop elements: one pass, or the first half of the passes and then the rest
EmaLoop(rest, k, ema_values, stop) ==
    IF Len(ema_values) >= stop THEN ema_values
    ELSE IF Len(ema_values) + 1 = stop
    THEN EmaStep(rest[Len(ema_values)], k, ema_values)
    ELSE EmaLoop(rest, k,
                 EmaLoop(rest, k, ema_values, (Len(ema_values) + stop) \div 2),
                 stop)

_ema(prices, period) ==
    IF Len(prices) < period THEN <<>>
    ELSE LET k == Div(Float(2), Float(period + 1))
             seed == Div(Sum(Slice(prices, 0, period)), Float(period))
         IN  EmaLoop(Slice(prices, period, Len(prices)), k, <<seed>>,
                     Len(prices) - period + 1)

\* the pass of the _sma loop with a window that starts one element late
SmaStep_shortWindow(prices, period, result) ==
    LET i == Len(result)
    IN  Append(result, Div(Sum(Slice(prices, i - period + 2, i + 1)), Float(period)))

\* result.append(sum(prices[i - period + 1 : i + 1]) / period); the list has
\* one element per index below i
SmaStep(prices, period, result) ==
    LET i == Len(result)
    IN  Append(result, Div(Sum(Slice(prices, i - period + 1, i + 1)), Float(period)))

RECURSIVE SmaLoop(_, _, _, _)
\* the for loop of _sma, i over range(period - 1, len(prices)), run until
\* result has stop elements: one pass, or the first half and then the rest
SmaLoop(prices, period, result, stop) ==
    IF Len(result) >= stop THEN result
    ELSE IF Len(result) + 1 = stop THEN SmaStep(prices, period, result)
    ELSE SmaLoop(prices, period,
                 SmaLoop(prices, period, result, (Len(result) + stop) \div 2),
                 stop)

_sma(prices, period) ==
    SmaLoop(prices, period, Nones(period - 1), Len(prices))

\* ------------------------------------------------------------ compute_rsi
\* _rsi with `or` for `and` in its first test
_rsi_or(ag, al) ==
    IF IsZero(ag) \/ IsZero(al) THEN Float(50)
    ELSE LET rs == Div(ag, al)
         IN  Round(Sub(Float(100), Div(Float(100), Add(Float(1), rs))), RSI_DECIMALS)

\* _rsi returning the relative strength as a percentage
_rsi_ratio(ag, al) ==
    IF IsZero(ag) /\ IsZero(al) THEN Float(50)
    ELSE IF IsZero(al) THEN Float(100)
    ELSE LET rs == Div(ag, al)
         IN  Round(Mul(Float(100), rs), RSI_DECIMALS)

\* _rsi without its zero/zero branch
_rsi_flat100(ag, al) ==
    IF IsZero(al) THEN Float(100)
    ELSE LET rs == Div(ag, al)
         IN  Round(Sub(Float(100), Div(Float(100), Add(Float(1), rs))), RSI_DECIMALS)

\* the edge-case function of compute_rsi
_rsi(ag, al) ==
    IF IsZero(ag) /\ IsZero(al) THEN Float(50)
    ELSE IF IsZero(al) THEN Float(100)
    ELSE LET rs == Div(ag, al)
         IN  Round(Sub(Float(100), Div(Float(100), Add(Float(1), rs))), RSI_DECIMALS)

\* gains taken from the falls instead of the rises
Gains_fromFalls(close_) ==
    [i \in 1..(Len(close_) - 1) |-> Max0(Sub(close_[i], close_[i + 1]))]

\* gains.append(max(delta, 0)) for i in range(1, len(close))
Gains(close_) ==
    [i \in 1..(Len(close_) - 1) |-> Max0(Sub(close_[i + 1], close_[i]))]

\* losses.append(max(-delta, 0)) for i in range(1, len(close))
Losses(close_) ==
    [i \in 1..(Len(close_) - 1) |-> Max0(Neg(Sub(close_[i + 1], close_[i])))]

\* one pass of the Wilder loop at index i = len(rsi_values) - 1; st holds the
\* locals avg_gain, avg_loss, rsi_values, and avgs, the (avg_gain, avg_loss)
\* pairs that _rsi was applied to, in order
RsiStep(gains, losses, period, st) ==
    LET i == Len(st.rsi_values) - 1
        avg_gain == Div(Add(Mul(st.avg_gain, Float(period - 1)), gains[i + 1]),
                        Float(period))
        avg_loss == Div(Add(Mul(st.avg_loss, Float(period - 1)), losses[i + 1]),
                        Float(period))
    IN  [avg_gain |-> avg_gain, avg_loss |-> avg_loss,
         rsi_values |-> Append(st.rsi_values, _rsi(avg_gain, avg_loss)),
         avgs |-> Append(st.avgs, <<avg_gain, avg_loss>>)]

RECURSIVE RsiLoop(_, _, _, _, _)
\* the Wilder loop, i over range(period, len(gains)), run until rsi_values has
\* stop elements: one pass, or the first half of the passes and then the rest
RsiLoop(gains, losses, period, st, stop) ==
    IF Len(st.rsi_values) >= stop THEN st
    ELSE IF Len(st.rsi_values) + 1 = stop THEN RsiStep(gains, losses, period, st)
    ELSE RsiLoop(gains, losses, period,
                 RsiLoop(gains, losses, period, st,
                         (Len(st.rsi_values) + stop) \div 2),
                 stop)

\* compute_rsi past its length guard: the seed, the first value, the loop
RsiRun(close_, period) ==
    LET gains == Gains(close_)
        losses == Losses(close_)
        avg_gain == Div(Sum(Slice(gains, 0, period)), Float(period))
        avg_loss == Div(Sum(Slice(losses, 0, period)), Float(period))
    IN  RsiLoop(gains, losses, period,
                [avg_gain |-> avg_gain, avg_loss |-> avg_loss,
                 rsi_values |-> Append(Nones(period), _rsi(avg_gain, avg_loss)),
                 avgs |-> <<<<avg_gain, avg_loss>>>>],
                Len(close_))

\* compute_rsi with its length guard off by one
compute_rsi_guard(close_, period) ==
    IF Len(close_) < period THEN Nones(Len(close_))
    ELSE RsiRun(close_, period).rsi_values

compute_rsi(close_, period) ==
    IF Len(close_) < period + 1 THEN Nones(Len(close_))
    ELSE RsiRun(close_, period).rsi_values

\* the (avg_gain, avg_loss) pairs of one compute_rsi call
RsiAverages(close_, period) ==
    IF Len(close_) < period + 1 THEN <<>> ELSE RsiRun(close_, period).avgs

\* ----------------------------------------------------------- compute_macd
Min(a, b) == IF a < b THEN a ELSE b

\* [x - y for x, y in zip(xs, ys)]
Diff(xs, ys) == [i \in 1..Min(Len(xs), Len(ys)) |-> Sub(xs[i], ys[i])]

\* [round(v, 4) for v in xs]
Rounded(xs) == [i \in 1..Len(xs) |-> Round(xs[i], MACD_DECIMALS)]

\* the locals of compute_macd with ema_fast taken from its start, not aligned
MacdLocals_noOffset(close_, fast, slow, signal) ==
    LET ema_fast == _ema(close_, fast)
        ema_slow == _ema(close_, slow)
        offset == 0
        raw_line == Diff(Slice(ema_fast, offset, Len(ema_fast)), ema_slow)
        macd_line == Rounded(raw_line)
        signal_line == _ema(macd_line, signal)
        offset_sig == signal - 1
        aligned_macd == Slice(macd_line, offset_sig, Len(macd_line))
        raw_hist == Diff(aligned_macd, signal_line)
    IN  [ema_fast |-> ema_fast, ema_slow |-> ema_slow, offset |-> offset,
         raw_line |-> raw_line, macd_line |-> macd_line,
         signal_line |-> signal_line, aligned_macd |-> aligned_macd,
         raw_hist |-> raw_hist, histogram |-> Rounded(raw_hist)]

\* the locals of compute_macd past its length guard; raw_line and raw_hist
\* are the differences f - s and m - s that the two round() calls receive
MacdLocals(close_, fast, slow, signal) ==
    LET ema_fast == _ema(close_, fast)
        ema_slow == _ema(close_, slow)
        offset == slow - fast
        raw_line == Diff(Slice(ema_fast, offset, Len(ema_fast)), ema_slow)
        macd_line == Rounded(raw_line)
        signal_line == _ema(macd_line, signal)
        offset_sig == signal - 1
        aligned_macd == Slice(macd_line, offset_sig, Len(macd_line))
        raw_hist == Diff(aligned_macd, signal_line)
    IN  [ema_fast |-> ema_fast, ema_slow |-> ema_slow, offset |-> offset,
         raw_line |-> raw_line, macd_line |-> macd_line,
         signal_line |-> signal_line, aligned_macd |-> aligned_macd,
         raw_hist |-> raw_hist, histogram |-> Rounded(raw_hist)]

\* the locals of a call that returns at the length guard
NoLocals == MacdLocals(<<>>, 1, 2, 1)

\* compute_macd returning macd_line without re-aligning it to signal_line
compute_macd_unaligned(close_, fast, slow, signal) ==
    IF Len(close_) < slow + signal
    THEN [macd |-> <<>>, signal |-> <<>>, histogram |-> <<>>, locals |-> NoLocals]
    ELSE LET l == MacdLocals(close_, fast, slow, signal)
         IN  [macd |-> Rounded(l.macd_line),
              signal |-> Rounded(l.signal_line),
              histogram |-> Rounded(Diff(l.macd_line, l.signal_line)),
              locals |-> l]

\* the returned dict, and with it (field locals) the locals the call computed
compute_macd(close_, fast, slow, signal) ==
    IF Len(close_) < slow + signal
    THEN [macd |-> <<>>, signal |-> <<>>, histogram |-> <<>>, locals |-> NoLocals]
    ELSE LET l == MacdLocals(close_, fast, slow, signal)
         IN  [macd |-> Rounded(l.aligned_macd),
              signal |-> Rounded(l.signal_line),
              histogram |-> l.histogram,
              locals |-> l]

Range(s) == {s[i] : i \in 1..Len(s)}

\* the smoothing factor of _ema and its complement
EmaFactors(period) ==
    LET k == Div(Float(2), Float(period + 1)) IN {k, Sub(Float(1), k)}

\* The rational model decides every round() of a compute_macd call with the
\* locals l: no operand of a round() is a tie, or every float of the run holds
\* its value exactly (then so does each tie, and it goes to the even neighbour).
MacdFaithful(close_, fast, slow, signal, l) ==
    IF \A x \in Range(l.raw_line) \cup Range(l.raw_hist) \cup Range(l.signal_line) :
           ~IsTie(x, MACD_DECIMALS)
    THEN TRUE
    ELSE \A x \in Range(close_) \cup EmaFactors(fast) \cup EmaFactors(slow)
                   \cup EmaFactors(signal) \cup Range(l.ema_fast)
                   \cup Range(l.ema_slow) \cup Range(l.raw_line)
                   \cup Range(l.macd_line) \cup Range(l.signal_line)
                   \cup Range(l.raw_hist) :
             Dyadic(x)

\* ---------------------------------------------------- compute_bollinger_bands
\* x ** 2: the square of a fraction in lowest terms is in lowest terms
Square(x) == <<x[1] * x[1], x[2] * x[2]>>

\* sum((p - sma) ** 2 for p in window)
SumSq(window, sma) ==
    Sum([i \in 1..Len(window) |-> Square(Sub(window[i], sma))])

\* sma = sum(window) / period
WindowMean(window, period) == Div(Sum(window), Float(period))

\* the sample variance (divisor period - 1)
WindowVariance_sample(window, period, sma) ==
    Div(SumSq(window, sma), Float(IF period > 1 THEN period - 1 ELSE 1))

\* variance = sum((p - sma) ** 2 for p in window) / period
WindowVariance(window, period, sma) == Div(SumSq(window, sma), Float(period))

\* the three values with the two bands exchanged
BandsOf_swapped(sma, variance, std_dev, e) ==
    [middle |-> RoundErr(sma, BB_DECIMALS, e[2]),
     upper |-> RoundSurd(sma, Neg(std_dev), variance, BB_DECIMALS, e[1]),
     lower |-> RoundSurd(sma, std_dev, variance, BB_DECIMALS, e[3])]

\* the three values appended for a window with this sma and variance:
\* round(sma, 2), round(sma + std_dev * std, 2), round(sma - std_dev * std, 2);
\* e = <<lower, middle, upper>> are the signs of the rounding errors of the
\* three round() operands
BandsOf(sma, variance, std_dev, e) ==
    [middle |-> RoundErr(sma, BB_DECIMALS, e[2]),
     upper |-> RoundSurd(sma, std_dev, variance, BB_DECIMALS, e[3]),
     lower |-> RoundSurd(sma, Neg(std_dev), variance, BB_DECIMALS, e[1])]

BandsAt(window, period, std_dev, e, sma) ==
    BandsOf(sma, WindowVariance(window, period, sma), std_dev, e)

\* one pass of the for loop of compute_bollinger_bands
BollWindow(window, period, std_dev, e) ==
    BandsAt(window, period, std_dev, e, WindowMean(window, period))

\* BollPasses with the loop started one index late
BollPasses_late(close_, period, std_dev, err) ==
    [j \in 1..(Len(close_) - period) |->
        BollWindow(SubSeq(close_, j + 1, j + period), period, std_dev, err[j + 1])]

\* the passes of the loop, in order: pass j handles i = period - 2 + j (0-based)
BollPasses(close_, period, std_dev, err) ==
    [j \in 1..(Len(close_) - period + 1) |->
        BollWindow(SubSeq(close_, j, j + period - 1), period, std_dev, err[j])]

\* the lists the passes have built
BollLists(passes) ==
    [upper |-> [j \in 1..Len(passes) |-> passes[j].upper],
     middle |-> [j \in 1..Len(passes) |-> passes[j].middle],
     lower |-> [j \in 1..Len(passes) |-> passes[j].lower]]

\* the returned dict; err[j] are the error signs of pass j
compute_bollinger_bands(close_, period, std_dev, err) ==
    IF Len(close_) < period
    THEN [upper |-> <<>>, middle |-> <<>>, lower |-> <<>>]
    ELSE BollLists(BollPasses(close_, period, std_dev, err))

\* the error signs <<lower, middle, upper>> one pass can have.  sum(window),
\* the division, the squares, math.sqrt and the products are exact when their
\* results are held by a double.  std >= 0 and float addition is monotone, so
\* sma - std_dev * std <= sma <= sma + std_dev * std hold for the floats too:
\* when the three real numbers coincide (std_dev = 0 or a flat window) the
\* signs are ordered, and they are equal when the floats coincide (std_dev = 0,
\* or a flat window of one or two values, whose mean is computed exactly).
WindowErrsOf(window, period, std_dev, sma, variance) ==
    LET held == Dyadic(sma) /\ DyadicSeq(window)
        rational == HasRationalSqrt(variance)
        heldBand == held /\ rational /\ Dyadic(variance)
                      /\ Dyadic(Sqrt(variance)) /\ Dyadic(std_dev)
        joint == std_dev[1] = 0 \/ variance[1] = 0
        same == std_dev[1] = 0 \/ (variance[1] = 0 /\ period <= 2)
        band(c) == IF rational
                   THEN ErrSigns(Add(sma, Mul(c, Sqrt(variance))), BB_DECIMALS, heldBand)
                   ELSE {0}
        mid == ErrSigns(sma, BB_DECIMALS, held)
    IN  IF same THEN {<<m, m, m>> : m \in mid}
        ELSE IF joint
        THEN {<<l, m, u>> : l \in mid, m \in mid, u \in mid}
               \cap {e \in {-1, 0, 1} \X {-1, 0, 1} \X {-1, 0, 1} :
                        e[1] <= e[2] /\ e[2] <= e[3]}
        ELSE {<<l, m, u>> : l \in band(Neg(std_dev)), m \in mid, u \in band(std_dev)}

WindowErrsAt(window, period, std_dev, sma) ==
    WindowErrsOf(window, period, std_dev, sma, WindowVariance(window, period, sma))

WindowErrs(window, period, std_dev) ==
    WindowErrsAt(window, period, std_dev, WindowMean(window, period))

RECURSIVE ErrSeqs(_, _, _, _, _)
\* the error signs of the passes lo..hi: those of one pass, or those of the
\* first half followed by those of the rest
ErrSeqs(close_, period, std_dev, lo, hi) ==
    IF lo > hi THEN {<<>>}
    ELSE IF lo = hi
    THEN {<<e>> : e \in WindowErrs(SubSeq(close_, lo, lo + period - 1), period, std_dev)}
    ELSE LET mid == (lo + hi) \div 2
         IN  {s \o t : s \in ErrSeqs(close_, period, std_dev, lo, mid),
                       t \in ErrSeqs(close_, period, std_dev, mid + 1, hi)}

\* the error signs a call of compute_bollinger_bands can have
BollErrs(close_, period, std_dev) ==
    IF Len(close_) < period THEN {<<>>}
    ELSE ErrSeqs(close_, period, std_dev, 1, Len(close_) - period + 1)

\* ----------------------------------------------------- compute_indicators
\* next((v for v in reversed(series) if v is not None), None)
LastValid(series) ==
    LET valid == {i \in 1..Len(series) : ~IsNone(series[i])}
    IN  IF valid = {} THEN None
        ELSE series[CHOOSE i \in valid : \A j \in (i + 1)..Len(series) : IsNone(series[j])]

\* xs[-1] if xs else None
LastOf(xs) == IF Len(xs) > 0 THEN xs[Len(xs)] ELSE None

\* the truth value of a float or None: None and 0.0 are false
Truthy(x) == ~IsNone(x) /\ x[1] # 0

\* a phrase without a number in it
Phrase(text) == [phrase |-> text, rsi |-> None]

\* the RSI phrase with the thresholds included
RsiSignal_inclusive(last_rsi, e) ==
    IF IsNone(last_rsi) THEN <<>>
    ELSE <<[phrase |-> IF Leq(Float(OVERBOUGHT), last_rsi) THEN "RSI Overbought"
                       ELSE IF Leq(last_rsi, Float(OVERSOLD)) THEN "RSI Oversold"
                       ELSE "RSI Neutral",
            rsi |-> RoundErr(last_rsi, SHOWN_DECIMALS, e)]>>

\* the RSI phrase; f"{last_rsi:.1f}" is last_rsi rounded to 1 decimal,
\* e the sign of the error of the float that holds last_rsi
RsiSignal(last_rsi, e) ==
    IF IsNone(last_rsi) THEN <<>>
    ELSE <<[phrase |-> IF Less(Float(OVERBOUGHT), last_rsi) THEN "RSI Overbought"
                       ELSE IF Less(last_rsi, Float(OVERSOLD)) THEN "RSI Oversold"
                       ELSE "RSI Neutral",
            rsi |-> RoundErr(last_rsi, SHOWN_DECIMALS, e)]>>

\* the MACD phrase with equality counted as bullish
MacdSignal_inclusive(last_macd, last_signal) ==
    IF IsNone(last_macd) \/ IsNone(last_signal) THEN <<>>
    ELSE IF Leq(last_signal, last_macd) THEN <<Phrase("MACD above signal line")>>
    ELSE <<Phrase("MACD below signal line")>>

MacdSignal(last_macd, last_signal) ==
    IF IsNone(last_macd) \/ IsNone(last_signal) THEN <<>>
    ELSE IF Less(last_signal, last_macd) THEN <<Phrase("MACD above signal line")>>
    ELSE <<Phrase("MACD below signal line")>>

\* if last_sma50 and last_sma200: ...
CrossSignal(last_sma50, last_sma200) ==
    IF ~(Truthy(last_sma50) /\ Truthy(last_sma200)) THEN <<>>
    ELSE IF Less(last_sma200, last_sma50) THEN <<Phrase("Golden Cross active")>>
    ELSE <<Phrase("Death Cross active")>>

\* if last_close and last_bb_upper and last_bb_lower: ...
BandSignal(last_close, last_bb_upper, last_bb_lower) ==
    IF ~(Truthy(last_close) /\ Truthy(last_bb_upper) /\ Truthy(last_bb_lower))
    THEN <<>>
    ELSE IF Less(last_bb_upper, last_close)
    THEN <<Phrase("Price above upper Bollinger Band")>>
    ELSE IF Less(last_close, last_bb_lower)
    THEN <<Phrase("Price below lower Bollinger Band")>>
    ELSE <<>>

\* the list with the Bollinger phrase appended first
SignalList_bandFirst(rsi_part, macd_part, cross_part, band_part) ==
    band_part \o rsi_part \o macd_part \o cross_part

\* signals = [] (line 184) and the appends in the order of lines 185-209
SignalList(rsi_part, macd_part, cross_part, band_part) ==
    rsi_part \o macd_part \o cross_part \o band_part

\* the reference price taken from the first close whatever the length
Price30dAgo_first(close_) == close_[1]

\* close[-30] if len(close) >= 30 else close[0]   (close not empty)
Price30dAgo(close_) ==
    IF Len(close_) >= TREND_DAYS THEN close_[Len(close_) - TREND_DAYS + 1]
    ELSE close_[1]

\* the percentage with 100 for a reference price of 0
TrendPct_hundred(last_close, price_30d_ago) ==
    IF Truthy(price_30d_ago)
    THEN Mul(Div(Sub(last_close, price_30d_ago), price_30d_ago), Float(100))
    ELSE Float(100)

\* ((last_close - price_30d_ago) / price_30d_ago * 100) if price_30d_ago else 0
TrendPct(last_close, price_30d_ago) ==
    IF Truthy(price_30d_ago)
    THEN Mul(Div(Sub(last_close, price_30d_ago), price_30d_ago), Float(100))
    ELSE Float(0)

\* the label decided by the sign of the percentage alone
Trend_signOnly(trend_pct) ==
    IF Less(Float(0), trend_pct) THEN "Uptrend"
    ELSE IF Less(trend_pct, Float(0)) THEN "Downtrend"
    ELSE "Sideways"

Trend(trend_pct) ==
    IF Less(Float(TREND_PCT), trend_pct) THEN "Uptrend"
    ELSE IF Less(trend_pct, Float(-TREND_PCT)) THEN "Downtrend"
    ELSE "Sideways"

\* round(v, 2) if v else None
RoundIfTruthy(v, e) == IF Truthy(v) THEN RoundErr(v, LATEST_DECIMALS, e) ELSE None

\* the (avg_gain, avg_loss) pairs of the call whose round() operand is a tie
\* that the floats do not hold exactly
RsiInexactTies(avgs) ==
    {w \in Range(avgs) :
        /\ ~IsZero(w[2])
        /\ LET rs == Div(w[1], w[2])
               part == Div(Float(100), Add(Float(1), rs))
           IN  /\ IsTie(Sub(Float(100), part), RSI_DECIMALS)
               /\ ~(Dyadic(w[1]) /\ Dyadic(w[2]) /\ Dyadic(rs) /\ Dyadic(part))}

\* the indicator series of compute_indicators (lines 164-168), with the
\* locals of the compute_rsi and compute_macd runs
Indicators(close_) ==
    [sma_20 |-> _sma(close_, SMA_SHORT),
     sma_50 |-> _sma(close_, SMA_MID),
     sma_200 |-> _sma(close_, SMA_LONG),
     rsi_14 |-> compute_rsi(close_, RSI_PERIOD),
     rsi_avgs |-> RsiAverages(close_, RSI_PERIOD),
     macd_data |-> compute_macd(close_, MACD_FAST, MACD_SLOW, MACD_SIGNAL)]

\* The rational model decides every round() of the compute_rsi and
\* compute_macd runs of a compute_indicators call with the series s.
IndFaithful(close_, s) ==
    /\ RsiInexactTies(s.rsi_avgs) = {}
    /\ MacdFaithful(close_, MACD_FAST, MACD_SLOW, MACD_SIGNAL, s.macd_data.locals)

\* the signs of the float errors that a compute_indicators call can meet where
\* they matter: in compute_bollinger_bands, in the .1f of the RSI phrase and in
\* the round() calls of the latest dict.  A mean and the trend quotient are
\* exact when a double holds them and the closes.
IndErrsOf(close_, last_rsi, last_sma20, last_sma50, last_sma200, trend_pct) ==
    LET signs(v, k, exact) == IF IsNone(v) THEN {0} ELSE ErrSigns(v, k, exact)
        held == DyadicSeq(close_)
    IN  [bb : BollErrs(close_, BB_PERIOD, Float(BB_STD_DEV)),
         shown : signs(last_rsi, SHOWN_DECIMALS, Dyadic(last_rsi)),
         sma_20 : signs(last_sma20, LATEST_DECIMALS, Dyadic(last_sma20) /\ held),
         sma_50 : signs(last_sma50, LATEST_DECIMALS, Dyadic(last_sma50) /\ held),
         sma_200 : signs(last_sma200, LATEST_DECIMALS, Dyadic(last_sma200) /\ held),
         trend : ErrSigns(trend_pct, LATEST_DECIMALS,
                          Dyadic(Div(trend_pct, Float(100))) /\ held)]

IndErrs(close_, s) ==
    IndErrsOf(close_, LastValid(s.rsi_14), LastValid(s.sma_20), LastValid(s.sma_50),
              LastValid(s.sma_200), TrendPct(LastOf(close_), Price30dAgo(close_)))

\* the latest values (lines 172-181), the signals (184-209), the trend
\* (212-214) and the returned dict (216-239)
SummaryOf(close_, s, bb_data, err, last_close, last_rsi, last_sma20, last_sma50, last_sma200, trend_pct) ==
    LET last_macd == LastOf(s.macd_data.macd)
        last_signal == LastOf(s.macd_data.signal)
        last_hist == LastOf(s.macd_data.histogram)
        last_bb_upper == LastOf(bb_data.upper)
        last_bb_lower == LastOf(bb_data.lower)
        signals == SignalList(RsiSignal(last_rsi, err.shown),
                              MacdSignal(last_macd, last_signal),
                              CrossSignal(last_sma50, last_sma200),
                              BandSignal(last_close, last_bb_upper, last_bb_lower))
    IN  [op |-> "indicators",
         rsi |-> s.rsi_14,
         macd |-> [macd |-> s.macd_data.macd, signal |-> s.macd_data.signal,
                   histogram |-> s.macd_data.histogram],
         bollinger_bands |-> bb_data,
         sma_20 |-> s.sma_20,
         sma_50 |-> s.sma_50,
         sma_200 |-> s.sma_200,
         latest |-> [close |-> last_close,
                     rsi |-> RoundIfTruthy(last_rsi, 0),
                     macd |-> last_macd,
                     macd_signal |-> last_signal,
                     macd_histogram |-> last_hist,
                     sma_20 |-> RoundIfTruthy(last_sma20, err.sma_20),
                     sma_50 |-> RoundIfTruthy(last_sma50, err.sma_50),
                     sma_200 |-> RoundIfTruthy(last_sma200, err.sma_200),
                     bb_upper |-> last_bb_upper,
                     bb_lower |-> last_bb_lower,
                     trend |-> Trend(trend_pct),
                     trend_30d_pct |-> RoundErr(trend_pct, LATEST_DECIMALS, err.trend)],
         signals |-> signals,
         data_points |-> Len(close_)]

\* compute_indicators from line 169 on, given the series s of lines 164-168
Summary(close_, s, err) ==
    SummaryOf(close_, s,
              compute_bollinger_bands(close_, BB_PERIOD, Float(BB_STD_DEV), err.bb),
              err, LastOf(close_), LastValid(s.rsi_14), LastValid(s.sma_20),
              LastValid(s.sma_50), LastValid(s.sma_200),
              TrendPct(LastOf(close_), Price30dAgo(close_)))

\* compute_indicators(dates, close, high, low, volume) on a close series that
\* is not empty; err holds the signs of the float errors (IndErrs)
compute_indicators(close_, err) == Summary(close_, Indicators(close_), err)

\* ------------------------------------------------------------------- state
VARIABLES close, pc, ret, others, log, spc, events, parts, sessions, creates, req

\* close, pc, ret        the caller of the indicator functions: the series,
\*                       the caller's position and the value returned
\* others, log           the other lists passed to compute_indicators and
\*                       the calls made so far
\* spc, events, parts    a /chat/stream request: its position, the events
\*                       sent and the number of parts the agent produced
\* sessions, creates,    the session service: the sessions stored, the
\* req                   create_session calls made and the requests inside
\*                       ensure_session
vars == <<close, pc, ret, others, log, spc, events, parts, sessions, creates, req>>

\* compute_indicators called with the series alone; no call logged
NoOthers == [dates |-> <<>>, high |-> <<>>, low |-> <<>>, volume |-> <<>>]

NoCalls == others = NoOthers /\ log = <<>>

\* no /chat/stream request
NoStream == spc = "none" /\ events = <<>> /\ parts = 0

\* no session and no request for one
NoSessions == sessions = {} /\ creates = <<>> /\ req = <<>>

callvars == <<others, log>>

streamvars == <<spc, events, parts>>

sessvars == <<sessions, creates, req>>

\* prices are whole numbers of ticks of one eighth
Tick == Norm(1, 8)

Price(p) == Mul(Float(p), Tick)

Prices == {Price(p) : p \in 0..MaxPrice}

Periods == 1..MaxPeriod

\* every short series that moves between two price levels
ShortInputs ==
    UNION {[1..n -> {lo, hi}] : n \in 0..MaxLen, lo \in Prices, hi \in Prices}

\* series around the 20-bar window: close[i] = (a*i + b) mod (MaxPrice + 1) ticks
LongInputs ==
    {[i \in 1..n |-> Price((a * i + b) % (MaxPrice + 1))] :
        n \in (SMA_SHORT - 1)..(SMA_SHORT + LongSlack),
        a \in 0..MaxPrice, b \in 0..MaxPrice}

\* the sum of the first i steps of a series whose steps alternate a, b, a, ...
StepSum(a, b, i) == a * ((i + 1) \div 2) + b * (i \div 2)

\* strictly increasing and strictly decreasing series with alternating steps
MonotoneInputs ==
    {[i \in 1..n |-> Price(IF up THEN StepSum(a, b, i - 1)
                                 ELSE StepSum(a, b, n - 1) - StepSum(a, b, i - 1))] :
        n \in 2..MaxLen, a \in 1..(MaxPrice + 1), b \in 1..(MaxPrice + 1),
        up \in BOOLEAN}

\* a price of p cents and a half
HalfCent(p) == Norm(10 * p + 5, 1000)

\* flat series at a price that no double holds and that round(.., 2) ties on
DecimalInputs ==
    {[i \in 1..n |-> HalfCent(p)] : n \in 1..(MaxPeriod + 1), p \in 0..(MaxPrice + 1)}

\* no call made yet
NoRet == [op |-> "none", period |-> 0, fast |-> 0, slow |-> 0, signal |-> 0,
          out |-> <<>>, avgs |-> <<>>,
          macd |-> <<>>, sig |-> <<>>, hist |-> <<>>,
          std_dev |-> None, upper |-> <<>>, middle |-> <<>>, lower |-> <<>>]

Init ==
    /\ close \in ShortInputs \cup LongInputs \cup MonotoneInputs \cup DecimalInputs
    /\ pc = "idle"
    /\ ret = NoRet
    /\ NoCalls /\ NoStream /\ NoSessions

CallSma ==
    /\ pc = "idle"
    /\ \E period \in Periods \cup {SMA_SHORT} :
          ret' = [NoRet EXCEPT !.op = "sma", !.period = period,
                               !.out = _sma(close, period)]
    /\ pc' = "returned"
    /\ UNCHANGED <<close, callvars, streamvars, sessvars>>

CallEma ==
    /\ pc = "idle"
    /\ Len(close) <= MaxLen
    /\ \E period \in Periods :
          ret' = [NoRet EXCEPT !.op = "ema", !.period = period,
                               !.out = _ema(close, period)]
    /\ pc' = "returned"
    /\ UNCHANGED <<close, callvars, streamvars, sessvars>>

CallRsi ==
    /\ pc = "idle"
    /\ Len(close) <= MaxLen
    /\ \E period \in Periods :
          ret' = [NoRet EXCEPT !.op = "rsi", !.period = period,
                               !.out = compute_rsi(close, period),
                               !.avgs = RsiAverages(close, period)]
    /\ pc' = "returned"
    /\ UNCHANGED <<close, callvars, streamvars, sessvars>>

CallMacd ==
    /\ pc = "idle"
    /\ Len(close) <= MaxLen
    /\ \E slow \in Periods, signal \in Periods :
          \E fast \in 1..(slow - 1) :
             \E r \in {compute_macd(close, fast, slow, signal)} :
                /\ MacdFaithful(close, fast, slow, signal, r.locals)
                /\ ret' = [NoRet EXCEPT !.op = "macd", !.fast = fast,
                                        !.slow = slow, !.signal = signal,
                                        !.macd = r.macd, !.sig = r.signal,
                                        !.hist = r.histogram]
    /\ pc' = "returned"
    /\ UNCHANGED <<close, callvars, streamvars, sessvars>>

\* the multipliers tried: 0 up to the default of 2
StdDevs == {Float(k) : k \in 0..BB_STD_DEV}

CallBollinger ==
    /\ pc = "idle"
    /\ \E period \in Periods \cup {SMA_SHORT}, std_dev \in StdDevs :
          \E err \in BollErrs(close, period, std_dev) :
             \E r \in {compute_bollinger_bands(close, period, std_dev, err)} :
                ret' = [NoRet EXCEPT !.op = "bollinger", !.period = period,
                                     !.std_dev = std_dev, !.upper = r.upper,
                                     !.middle = r.middle, !.lower = r.lower]
    /\ pc' = "returned"
    /\ UNCHANGED <<close, callvars, streamvars, sessvars>>

Next == CallSma \/ CallEma \/ CallRsi \/ CallMacd \/ CallBollinger

Spec == Init /\ [][Next]_vars

\* ------------------------------------------- state of compute_indicators
\* the lengths at which an indicator of compute_indicators gets its first
\* value: one close, RSI, SMA20 and the bands, the 30-day reference, MACD,
\* SMA50, SMA200
Marks ==
    {1, RSI_PERIOD + 1, SMA_SHORT, TREND_DAYS, MACD_SLOW + MACD_SIGNAL,
     SMA_MID, SMA_LONG}

\* lengths just below and from each mark on
Lengths == {m - 1 + k : m \in Marks, k \in 0..LongSlack}

\* the level a series rests on: 0, or the price whose 2 percent is one unit
Levels == {0, 100 \div TREND_PCT}

\* the slope and the last step of a series whose 14-bar averages, 13 bars of
\* one sign and one bar of the other, give an RSI of exactly 30 or 70
BoundarySlope == OVERBOUGHT \div 10

BoundaryStep == (OVERSOLD \div 10) * (RSI_PERIOD - 1)

Slopes == {-BoundarySlope, 0, BoundarySlope}

\* the last steps tried for a series of n closes with this slope: the slope
\* itself; on a flat series a step of one unit either way; and for the series
\* up to the SMA50 mark also every small step and the boundary step against
\* the slope
LastSteps(n, slope) ==
    IF n > SMA_MID + LongSlack
    THEN {slope} \cup (IF slope = 0 THEN {-1, 1} ELSE {})
    ELSE {slope} \cup (-MaxDelta..MaxDelta)
                 \cup (IF slope = BoundarySlope THEN {-BoundaryStep}
                       ELSE IF slope = -BoundarySlope THEN {BoundaryStep} ELSE {})

\* n closes in whole units: a ramp of the given slope that starts (rising) or
\* ends (falling) at the level, and a last close one step from the ramp's end
Ramp(n, level, slope, step) ==
    [i \in 1..n |->
        LET at(j) == IF slope >= 0 THEN level + slope * (j - 1)
                     ELSE level - slope * (n - 1 - j)
        IN  Float(IF i < n THEN at(i)
                  ELSE IF n = 1 THEN level + step ELSE at(n - 1) + step)]

\* the move that is exactly 2 percent of the price EdgeLevel
EdgeStep == 9

EdgeLevel == EdgeStep * (100 \div TREND_PCT)

\* two closes, the second one EdgeStep above or below the first, which is at
\* EdgeLevel, one unit off or twice as high: a move of 2 percent, just more,
\* just less and half of it
EdgeInputs ==
    {<<Float(EdgeLevel + a), Float(EdgeLevel + a + b * EdgeStep)>> :
        a \in {-1, 0, 1, EdgeLevel}, b \in {-1, 1}}

\* the series compute_indicators is called on: the ramps, the flat series
\* whose last close falls to 0, and the edges of the trend; no close is negative
IndInputs ==
    EdgeInputs \cup
    {c \in UNION {{Ramp(n, level, slope, step) :
                      step \in LastSteps(n, slope)
                                \cup (IF slope = 0 THEN {-level} ELSE {})} :
                  n \in Lengths, level \in Levels, slope \in Slopes} :
        \A i \in 1..Len(c) : c[i][1] >= 0}

InitInd ==
    /\ close \in IndInputs
    /\ pc = "idle"
    /\ ret = NoRet
    /\ NoCalls /\ NoStream /\ NoSessions

\* a call of compute_indicators: close[0] of an empty list raises IndexError
\* (line 212); otherwise the summary is returned
CallIndicators ==
    /\ pc = "idle"
    /\ IF Len(close) = 0
       THEN /\ pc' = "raised"
            /\ ret' = [op |-> "indicators", raised |-> "IndexError"]
       ELSE /\ \E s \in {Indicators(close)} :
                  /\ IndFaithful(close, s) = TRUE
                  /\ \E err \in IndErrs(close, s) : ret' = Summary(close, s, err)
            /\ pc' = "returned"
    /\ UNCHANGED <<close, callvars, streamvars, sessvars>>

NextInd == CallIndicators

SpecInd == InitInd /\ [][NextInd]_vars

\* ------------------------------------- calls with the lists of the caller
\* the calls one caller makes in a row
MaxCalls == 2

\* n entries of the value v
Filled(n, v) == [i \in 1..n |-> v]

\* the dates of n bars, as day numbers
Dates(n) == [i \in 1..n |-> i]

\* the lists passed next to n closes: all of n entries, with one value or
\* another in high, low and volume, or one list an entry short or long
OthersFor(n) ==
    LET aligned(v) == [dates |-> Dates(n), high |-> Filled(n, Price(v)),
                       low |-> Filled(n, Price(v)), volume |-> Filled(n, v)]
        off == {m \in {n - 1, n + 1} : m >= 0}
    IN  {aligned(v) : v \in 0..1}
        \cup {[aligned(0) EXCEPT !.dates = Dates(m)] : m \in off}
        \cup {[aligned(0) EXCEPT !.high = Filled(m, Price(0))] : m \in off}
        \cup {[aligned(0) EXCEPT !.low = Filled(m, Price(0))] : m \in off}
        \cup {[aligned(0) EXCEPT !.volume = Filled(m, 0)] : m \in off}

\* the series of up to 2 closes at two prices, and one of MaxLen closes that
\* alternates between them
CallInputs ==
    UNION {[1..n -> {Price(0), Price(1)}] : n \in 0..2}
    \cup {[i \in 1..MaxLen |-> Price(i % 2)]}

\* the summary with the last close read from high
ComputeIndicators_high(dates_, close_, high_, low_, volume_, err) ==
    LET r == compute_indicators(close_, err)
    IN  [r EXCEPT !.latest.close = LastOf(high_)]

\* compute_indicators(dates, close, high, low, volume) on a close series that
\* is not empty: the body reads close only (lines 164-239)
ComputeIndicators(dates_, close_, high_, low_, volume_, err) ==
    compute_indicators(close_, err)

InitCalls ==
    /\ close \in CallInputs
    /\ others \in OthersFor(Len(close))
    /\ log = <<>>
    /\ pc = "idle"
    /\ ret = NoRet
    /\ NoStream /\ NoSessions

\* a logged call: the arguments, the signs of the float errors, the outcome
Logged(err, outcome) ==
    [close |-> close, others |-> others, err |-> err, ret |-> outcome]

\* a call that takes the last close off the caller's list
CallWithOthers_popping ==
    /\ pc = "idle"
    /\ Len(log) < MaxCalls
    /\ Len(close) > 0
    /\ \E s \in {Indicators(close)} :
          \E err \in IndErrs(close, s) :
             /\ ret' = ComputeIndicators(others.dates, close, others.high,
                                         others.low, others.volume, err)
             /\ log' = Append(log, Logged(err, ret'))
    /\ pc' = "returned"
    /\ close' = SubSeq(close, 1, Len(close) - 1)
    /\ UNCHANGED <<others, streamvars, sessvars>>

\* a call of compute_indicators with the caller's five lists.  The floats of
\* a second call on the same closes are those of the first.
CallWithOthers ==
    /\ pc = "idle"
    /\ Len(log) < MaxCalls
    /\ IF Len(close) = 0
       THEN /\ pc' = "raised"
            /\ ret' = [op |-> "indicators", raised |-> "IndexError"]
            /\ log' = Append(log, Logged(<<>>, ret'))
       ELSE /\ \E s \in {Indicators(close)} :
                  /\ IndFaithful(close, s) = TRUE
                  /\ \E err \in IF log = <<>> THEN IndErrs(close, s) ELSE {log[1].err} :
                        /\ ret' = ComputeIndicators(others.dates, close, others.high,
                                                    others.low, others.volume, err)
                        /\ log' = Append(log, Logged(err, ret'))
            /\ pc' = "returned"
    /\ UNCHANGED <<close, others, streamvars, sessvars>>

\* the caller comes back with the same closes and other lists next to them
Recall ==
    /\ pc \in {"returned", "raised"}
    /\ Len(log) < MaxCalls
    /\ pc' = "idle"
    /\ others' \in OthersFor(Len(close))
    /\ UNCHANGED <<close, ret, log, streamvars, sessvars>>

\* the caller calls compute_indicators time after time; the call hands its
\* close list to _sma, compute_rsi, compute_macd (and so _ema) and
\* compute_bollinger_bands
NextCalls == CallWithOthers \/ Recall

SpecCalls == InitCalls /\ [][NextCalls]_vars

\* ------------------------------------------------------------ /chat/stream
\* the parts the agent run produces at most
MaxParts == 3

\* json.dumps({"type": type, ...})
Chunk(type) == [type |-> type]

\* f"data: {chunk}\n\n": the event sent for a chunk
Sse(chunk) == [data |-> chunk]

\* the parts of the events of runner.run_async: a function call, a function
\* response that is a chart, another function response, a text, and a part
\* with none of them (or an event without content)
PartKinds == {"function_call", "chart_response", "function_response", "text", "other"}

\* the chunk stream_agent_response yields for a part (lines 114-147)
Yielded(kind) ==
    IF kind = "function_call" THEN <<Chunk("tool_call")>>
    ELSE IF kind = "chart_response" THEN <<Chunk("chart")>>
    ELSE IF kind = "function_response" THEN <<Chunk("tool_result")>>
    ELSE IF kind = "text" THEN <<Chunk("text_chunk")>>
    ELSE <<>>

\* event_generator sends each chunk it receives (line 144)
Sent(chunks) == [i \in 1..Len(chunks) |-> Sse(chunks[i])]

InitStream ==
    /\ spc = "request"
    /\ events = <<>>
    /\ parts = 0
    /\ close = <<>> /\ pc = "idle" /\ ret = NoRet
    /\ NoCalls /\ NoSessions

\* a step of the request: its position and the events sent change
StreamStep(to, sent) ==
    /\ spc' = to
    /\ events' = events \o sent
    /\ UNCHANGED <<close, pc, ret, callvars, sessvars>>

\* no API key: HTTP 503, no stream (main.py lines 132-133)
Reject == spc = "request" /\ StreamStep("rejected", <<>>) /\ UNCHANGED parts

\* the StreamingResponse starts event_generator, which starts
\* stream_agent_response
Open == spc = "request" /\ StreamStep("get_runner", <<>>) /\ UNCHANGED parts

\* runner = get_runner()  (line 99)
GetRunner == spc = "get_runner" /\ StreamStep("ensure_session", <<>>) /\ UNCHANGED parts

\* get_runner raises: outside the try of stream_agent_response, so the
\* exception reaches event_generator
GetRunnerRaises ==
    spc = "get_runner" /\ StreamStep("outer_except", <<>>) /\ UNCHANGED parts

\* await ensure_session(user_id, session_id)  (line 100)
EnsureSession ==
    spc = "ensure_session" /\ StreamStep("run_async", <<>>) /\ UNCHANGED parts

EnsureSessionRaises ==
    spc = "ensure_session" /\ StreamStep("outer_except", <<>>) /\ UNCHANGED parts

\* the run produces a part and its chunk, if any, is sent
AgentPart ==
    /\ spc = "run_async"
    /\ parts < MaxParts
    /\ parts' = parts + 1
    /\ \E kind \in PartKinds : StreamStep("run_async", Sent(Yielded(kind)))

\* the run, or the handling of a part, raises an Exception inside the try
AgentRaises == spc = "run_async" /\ StreamStep("inner_except", <<>>) /\ UNCHANGED parts

\* the run ends: yield done (line 149)
AgentEnds ==
    spc = "run_async" /\ StreamStep("closed", Sent(<<Chunk("done")>>)) /\ UNCHANGED parts

\* except Exception of stream_agent_response: yield error (line 153)
InnerError ==
    spc = "inner_except" /\ StreamStep("inner_done", Sent(<<Chunk("error")>>))
    /\ UNCHANGED parts

\* ... and yield done (line 154)
InnerDone ==
    spc = "inner_done" /\ StreamStep("closed", Sent(<<Chunk("done")>>)) /\ UNCHANGED parts

\* the handler that sends the error event and ends the stream
OuterError_closing ==
    spc = "outer_except" /\ StreamStep("closed", <<Sse(Chunk("error"))>>)
    /\ UNCHANGED parts

\* except Exception of event_generator: send error (main.py lines 147-148)
OuterError ==
    spc = "outer_except" /\ StreamStep("outer_done", <<Sse(Chunk("error"))>>)
    /\ UNCHANGED parts

\* ... and send done (main.py line 149)
OuterDone ==
    spc = "outer_done" /\ StreamStep("closed", <<Sse(Chunk("done"))>>) /\ UNCHANGED parts

NextStream ==
    \/ Reject \/ Open
    \/ GetRunner \/ GetRunnerRaises
    \/ EnsureSession \/ EnsureSessionRaises
    \/ AgentPart \/ AgentRaises \/ AgentEnds
    \/ InnerError \/ InnerDone
    \/ OuterError \/ OuterDone

SpecStream == InitStream /\ [][NextStream]_vars

\* ---------------------------------------------------------- ensure_session
\* the requests that are inside ensure_session at the same time
MaxRequests == 2

\* (user_id, session_id)
Keys == {<<"default_user", "s1">>, <<"default_user", "s2">>}

Requests == 1..MaxRequests

\* the service starts empty (line 44) and holds the sessions that earlier
\* requests created
InitSession ==
    /\ sessions \in SUBSET Keys
    /\ creates = <<>>
    /\ req \in [Requests -> [at : {"get_session"}, key : Keys, existing : {FALSE}]]
    /\ close = <<>> /\ pc = "idle" /\ ret = NoRet
    /\ NoCalls /\ NoStream

\* existing = await runner.session_service.get_session(...)  (lines 67-71):
\* the lookup; the request resumes at line 72 after the await
GetSession(r) ==
    /\ req[r].at = "get_session"
    /\ req' = [req EXCEPT ![r].existing = req[r].key \in sessions,
                          ![r].at = "if_existing"]
    /\ UNCHANGED <<sessions, creates>>

\* if existing is None: false, nothing to do  (line 72)
SessionExists(r) ==
    /\ req[r].at = "if_existing"
    /\ req[r].existing
    /\ req' = [req EXCEPT ![r].at = "done"]
    /\ UNCHANGED <<sessions, creates>>

\* await runner.session_service.create_session(...)  (lines 73-77); the
\* service stores the session, or rejects an id it already has
CreateSession(r) ==
    /\ req[r].at = "if_existing"
    /\ ~req[r].existing
    /\ creates' = Append(creates, [key |-> req[r].key,
                                   existed |-> req[r].key \in sessions])
    /\ \/ /\ sessions' = sessions \cup {req[r].key}
          /\ req' = [req EXCEPT ![r].at = "done"]
       \/ /\ req[r].key \in sessions
          /\ req' = [req EXCEPT ![r].at = "raised"]
          /\ UNCHANGED sessions

\* the event loop runs one request up to its next await
NextSession ==
    \/ \E r \in Requests : GetSession(r) /\ UNCHANGED <<close, pc, ret, callvars, streamvars>>
    \/ \E r \in Requests : SessionExists(r) /\ UNCHANGED <<close, pc, ret, callvars, streamvars>>
    \/ \E r \in Requests : CreateSession(r) /\ UNCHANGED <<close, pc, ret, callvars, streamvars>>

SpecSession == InitSession /\ [][NextSession]_vars

\* ------------------------------------------------------------------ claims
AbsF(x) == <<Abs(x[1]), x[2]>>

\* x is a whole number of 10^-k
OnGrid(x, k) == x[2] # 0 /\ Pow10(k) % x[2] = 0

\* v is a value of the 10^-k grid nearest to x
NearestOnGrid(v, x, k) == OnGrid(v, k) /\ Leq(AbsF(Sub(v, x)), <<1, 2 * Pow10(k)>>)

\* the edge-case policy for one (avg_gain, avg_loss) pair and the value emitted for it
RsiPolicy(ag, al, v) ==
    /\ (IsZero(ag) /\ IsZero(al)) => v = Float(50)
    /\ (~IsZero(ag) /\ IsZero(al)) => v = Float(100)
    /\ ~IsZero(al) =>
          NearestOnGrid(v, Sub(Float(100),
                               Div(Float(100), Add(Float(1), Div(ag, al)))), 2)

C2_RsiInRange ==
    ret.op = "rsi" =>
        \A i \in 1..Len(ret.out) :
            IsNone(ret.out[i])
            \/ (Leq(Float(0), ret.out[i]) /\ Leq(ret.out[i], Float(100)))

\* a call whose output holds a boundary value and a value strictly inside
C2_Witness ==
    /\ ret.op = "rsi"
    /\ \E i \in 1..Len(ret.out) :
          ~IsNone(ret.out[i]) /\ ret.out[i] \in {Float(0), Float(100)}
    /\ \E i \in 1..Len(ret.out) :
          /\ ~IsNone(ret.out[i])
          /\ Less(Float(0), ret.out[i]) /\ Less(ret.out[i], Float(100))
          /\ ret.out[i] # Float(50)

IsFlat(s) == \A i \in 1..Len(s) : s[i] = s[1]

StrictlyIncreasing(s) == \A i \in 1..(Len(s) - 1) : Less(s[i], s[i + 1])

StrictlyDecreasing(s) == \A i \in 1..(Len(s) - 1) : Less(s[i + 1], s[i])

\* every position from index period (0-based) to the end of the input holds v
RsiAllFrom(v) ==
    /\ Len(ret.out) = Len(close)
    /\ \A i \in (ret.period + 1)..Len(close) : ret.out[i] = v

\* C3: on a flat series of length >= period + 1, compute_rsi is 50 at every
\* position from index period to the end.
C3_RsiFlatIsNeutral ==
    (ret.op = "rsi" /\ IsFlat(close) /\ Len(close) >= ret.period + 1)
        => RsiAllFrom(Float(50))

\* a flat series long enough for the Wilder loop to run after the seed
C3_Witness ==
    /\ ret.op = "rsi" /\ IsFlat(close)
    /\ ret.period >= 2 /\ Len(close) >= ret.period + 2
    /\ ret.out[Len(close)] = Float(50)

C5_RsiLengthAndMarkers ==
    ret.op = "rsi" =>
        /\ Len(ret.out) = Len(close)
        /\ \A i \in 1..Len(ret.out) :
              IsNone(ret.out[i]) <=> (Len(close) < ret.period + 1 \/ i <= ret.period)

\* a call with markers and numbers, the first number at index period
C5_Witness ==
    /\ ret.op = "rsi" /\ ret.period >= 2 /\ Len(close) >= ret.period + 2
    /\ IsNone(ret.out[ret.period]) /\ ~IsNone(ret.out[ret.period + 1])

\* C6: _sma returns exactly as many elements as values has, also when values
\* has fewer than period - 1.
C6_SmaLengthIsInputLength ==
    ret.op = "sma" => Len(ret.out) = Len(close)

RECURSIVE SumRange(_, _, _)
\* s[a] + ... + s[b]
SumRange(s, a, b) == IF a > b THEN Float(0) ELSE Add(SumRange(s, a, b - 1), s[b])

\* C7: the first period - 1 elements of _sma are markers (all of them when the
\* input is shorter than period), and every position i with
\* period - 1 <= i < len(values) holds the mean of values[i-period+1 .. i]; so
\* there are exactly period - 1 leading markers (19 for period 20).
C7_SmaMarkersAndMeans ==
    ret.op = "sma" =>
        /\ Len(ret.out) >= ret.period - 1
        /\ \A i \in 1..Len(ret.out) : i <= ret.period - 1 => IsNone(ret.out[i])
        /\ Len(close) < ret.period => \A i \in 1..Len(ret.out) : IsNone(ret.out[i])
        /\ \A i \in ret.period..Len(close) :
              /\ i <= Len(ret.out)
              /\ ~IsNone(ret.out[i])
              /\ Mul(ret.out[i], Float(ret.period))
                   = SumRange(close, i - ret.period + 1, i)

\* the 20-bar average of a series that is not flat: 19 markers, then the mean
\* of the first 20 values, then the mean of the next window
C7_Witness ==
    /\ ret.op = "sma" /\ ret.period = SMA_SHORT
    /\ Len(close) > SMA_SHORT /\ ~IsFlat(close)
    /\ IsNone(ret.out[SMA_SHORT - 1])
    /\ Mul(ret.out[SMA_SHORT], Float(SMA_SHORT)) = SumRange(close, 1, SMA_SHORT)
    /\ ~IsZero(ret.out[SMA_SHORT + 1])

\* C8: _ema is empty for fewer than period values; else it has
\* len(values) - period + 1 elements, starts with the mean of the first period
\* values, and each later element j is values[period-1+j]*k + ema[j-1]*(1-k)
\* with k = 2/(period+1).
C8_EmaRecurrence ==
    ret.op = "ema" =>
        LET p == ret.period
            k == Norm(2, p + 1)
        IN  IF Len(close) < p THEN ret.out = <<>>
            ELSE /\ Len(ret.out) = Len(close) - p + 1
                 /\ Mul(ret.out[1], Float(p)) = SumRange(close, 1, p)
                 /\ \A j \in 2..Len(ret.out) :
                       ret.out[j] = Add(Mul(close[p + j - 1], k),
                                        Mul(ret.out[j - 1], Sub(Float(1), k)))

\* an average over period >= 2 that moved at each of two steps after the seed
C8_Witness ==
    /\ ret.op = "ema" /\ ret.period >= 2 /\ Len(ret.out) >= 3
    /\ ret.out[1] # ret.out[2] /\ ret.out[2] # ret.out[3]

\* C9: the macd, signal and histogram series of compute_macd have one length:
\* 0 when len(close) < slow + signal, else len(close) - slow - signal + 2,
\* whatever the prices are.
C9_MacdLengths ==
    ret.op = "macd" =>
        LET m == IF Len(close) < ret.slow + ret.signal THEN 0
                 ELSE Len(close) - ret.slow - ret.signal + 2
        IN  Len(ret.macd) = m /\ Len(ret.sig) = m /\ Len(ret.hist) = m

\* a call where both alignments drop elements and the output is not empty
C9_Witness ==
    /\ ret.op = "macd" /\ ret.slow - ret.fast >= 1 /\ ret.signal >= 2
    /\ Len(close) > ret.slow + ret.signal /\ ~IsFlat(close)
    /\ Len(ret.macd) = 3 /\ ret.macd[1] # ret.macd[2]

\* C10: at every index of the compute_macd output,
\* |histogram[i] - (macd[i] - signal[i])| < 1e-6.
C10_HistogramIsMacdMinusSignal ==
    ret.op = "macd" =>
        \A i \in 1..Len(ret.hist) :
            Less(AbsF(Sub(ret.hist[i], Sub(ret.macd[i], ret.sig[i]))),
                 <<1, Pow10(6)>>)

\* the difference line over every close index t >= slow - 1 (0-based):
\* element i (1-based) is round(ema_fast[t-fast+1] - ema_slow[t-slow+1], 4)
\* at t = i + slow - 2, both EMAs read at the same close index
DifferenceLine(close_, fast, slow) ==
    LET ef == _ema(close_, fast)
        es == _ema(close_, slow)
    IN  [i \in 1..(Len(close_) - slow + 1) |->
            Round(Sub(ef[(i + slow - 2) - fast + 2], es[i]), MACD_DECIMALS)]

\* C11: for n >= slow + signal, macd[j] is the 4-decimal rounding of
\* ema_fast[t-fast+1] - ema_slow[t-slow+1] at the close index
\* t = j + slow + signal - 2; signal[j] is the signal-period EMA over that
\* difference line ending at the same t; the last element of each series is
\* the one of the final close.
C11_MacdAlignment ==
    (ret.op = "macd" /\ Len(close) >= ret.slow + ret.signal) =>
        LET line == DifferenceLine(close, ret.fast, ret.slow)
            sigs == _ema(line, ret.signal)
            last == Len(close) - ret.slow - ret.signal + 2
        IN  /\ Len(ret.macd) = last /\ Len(ret.sig) = last
            /\ (last - 1) + ret.slow + ret.signal - 2 = Len(close) - 1
            /\ \A j \in 1..last :
                  /\ ret.macd[j] = line[j + ret.signal - 1]
                  /\ ret.sig[j] = Round(sigs[j], MACD_DECIMALS)

\* a call where aligning matters: the fast EMA read from its own start gives
\* another value, and the signal line has moved after its seed
C11_Witness ==
    /\ ret.op = "macd" /\ ret.signal >= 2 /\ Len(ret.macd) >= 2
    /\ ret.sig[1] # ret.sig[2]
    /\ LET ef == _ema(close, ret.fast)
           es == _ema(close, ret.slow)
           j == Len(ret.macd)
       IN  Round(Sub(ef[j + ret.signal - 1], es[j + ret.signal - 1]), MACD_DECIMALS)
             # ret.macd[j]


\* C12: compute_bollinger_bands returns three series of one length: empty when
\* the close series is shorter than the period, n - period + 1 otherwise.
C12_BandLengths ==
    ret.op = "bollinger" =>
        LET n == Len(close)
            expected == IF n < ret.period THEN 0 ELSE n - ret.period + 1
        IN  /\ Len(ret.upper) = expected
            /\ Len(ret.middle) = expected
            /\ Len(ret.lower) = expected

\* a call with several windows, on a series longer than the period
C12_Witness ==
    /\ ret.op = "bollinger" /\ ret.period >= 2
    /\ Len(close) > ret.period
    /\ Len(ret.upper) = Len(close) - ret.period + 1

\* C13: at every position of the compute_bollinger_bands output
\* upper >= middle >= lower, for the rounded values the call returns.
C13_BandOrder ==
    ret.op = "bollinger" =>
        \A i \in 1..Len(ret.middle) :
            /\ Leq(ret.lower[i], ret.middle[i])
            /\ Leq(ret.middle[i], ret.upper[i])

\* a call with a position where the bands are strictly apart and a position
\* where the three are one value
C13_Witness ==
    /\ ret.op = "bollinger" /\ ret.std_dev[1] > 0 /\ ret.period >= 2
    /\ \E i \in 1..Len(ret.middle) :
          Less(ret.lower[i], ret.middle[i]) /\ Less(ret.middle[i], ret.upper[i])
    /\ \E i \in 1..Len(ret.middle) :
          ret.lower[i] = ret.middle[i] /\ ret.middle[i] = ret.upper[i]

\* mean(x * x for x in s), s non-empty
MeanSquare(s) == Div(Sum([i \in 1..Len(s) |-> Mul(s[i], s[i])]), Float(Len(s)))

\* the population variance of s: mean of the squares minus the squared mean
PopulationVariance(s) ==
    LET mean == Div(Sum(s), Float(Len(s)))
    IN  Sub(MeanSquare(s), Mul(mean, mean))

\* x is a value of the 10^-k grid nearest to m + c * sqrt(v)
NearestToSurd(x, m, c, v, k) ==
    LET half == <<1, 2 * Pow10(k)>>
    IN  /\ OnGrid(x, k)
        /\ SurdGeq(m, c, v, Sub(x, half))
        /\ SurdGeq(Neg(m), Neg(c), v, Neg(Add(x, half)))

\* position j of the output belongs to the window close[j .. j+period-1]:
\* middle is its mean and upper/lower are mean +/- std_dev * sqrt(V), V the
\* population variance, each rounded to 2 decimals
BandsOfWindow(j) ==
    LET window == SubSeq(close, j, j + ret.period - 1)
        mean == Div(Sum(window), Float(ret.period))
        V == PopulationVariance(window)
    IN  /\ NearestOnGrid(ret.middle[j], mean, BB_DECIMALS)
        /\ NearestToSurd(ret.upper[j], mean, ret.std_dev, V, BB_DECIMALS)
        /\ NearestToSurd(ret.lower[j], mean, Neg(ret.std_dev), V, BB_DECIMALS)

\* the three bands of position j are one value
BandsCoincide(j) == ret.upper[j] = ret.middle[j] /\ ret.middle[j] = ret.lower[j]

Returned == pc = "returned" /\ ret.op = "indicators"

\* the signals of the returned dict whose phrase is one of names
PhrasesOf(names) == SelectSeq(ret.signals, LAMBDA s : s.phrase \in names)

\* the last element of the series that is not a marker (the series has one)
LastNonMarker(series) ==
    series[CHOOSE i \in 1..Len(series) :
              /\ ~IsNone(series[i])
              /\ \A j \in (i + 1)..Len(series) : IsNone(series[j])]

HasNonMarker(series) == \E i \in 1..Len(series) : ~IsNone(series[i])

\* v to 2 decimals, as round() of the double nearest to v can give it
RoundedTo2(v) == {RoundErr(v, LATEST_DECIMALS, e) : e \in {-1, 0, 1}}

\* shown reports the series: its last non-marker value to 2 decimals when it
\* has one, whatever the value; null when it has none
ReportsLatest(series, shown) ==
    IF HasNonMarker(series)
    THEN ~IsNone(shown) /\ shown \in RoundedTo2(LastNonMarker(series))
    ELSE IsNone(shown)

\* C15: latest.rsi, latest.sma_20, latest.sma_50 and latest.sma_200 are the
\* last non-marker value of their series to 2 decimals whenever the series has
\* a non-marker value, a value of 0 included, and null only when it has none.
C15_LatestValues ==
    Returned =>
        /\ ReportsLatest(ret.rsi, ret.latest.rsi)
        /\ ReportsLatest(ret.sma_20, ret.latest.sma_20)
        /\ ReportsLatest(ret.sma_50, ret.latest.sma_50)
        /\ ReportsLatest(ret.sma_200, ret.latest.sma_200)

\* the reference price of the trend of a series that is not empty: close[-30]
\* from 30 closes on, close[0] below
ReferencePrice ==
    IF Len(close) >= 30 THEN close[Len(close) - 29] ELSE close[1]

\* (last_close - p) / p * 100
PercentFrom(p) == Mul(Div(Sub(close[Len(close)], p), p), Float(100))

\* C16: on a close series that is not empty compute_indicators returns, and
\* with p = close[-30] (close[0] below 30 closes) and trend_pct =
\* (last_close - p) / p * 100, latest.trend is Uptrend iff trend_pct > 2,
\* Downtrend iff trend_pct < -2 and Sideways otherwise, 2 and -2 included; it
\* is never another value.
C16_TrendClassification ==
    /\ (pc # "idle" /\ Len(close) > 0) => Returned
    /\ Returned =>
          /\ ret.latest.trend \in {"Uptrend", "Downtrend", "Sideways"}
          /\ ~IsZero(ReferencePrice) =>
                LET trend_pct == PercentFrom(ReferencePrice)
                IN  /\ ret.latest.trend = "Uptrend" <=> Less(Float(2), trend_pct)
                    /\ ret.latest.trend = "Downtrend" <=> Less(trend_pct, Float(-2))
                    /\ ret.latest.trend = "Sideways"
                          <=> (Leq(Float(-2), trend_pct) /\ Leq(trend_pct, Float(2)))

\* a series of 30 closes or more whose last close is exactly 2 percent above
\* close[-30] is Sideways
C16_Witness ==
    /\ Returned
    /\ Len(close) >= 30
    /\ ~IsZero(ReferencePrice)
    /\ PercentFrom(ReferencePrice) = Float(2)
    /\ ret.latest.trend = "Sideways"

\* C17: when the reference price of the trend is 0 the call returns normally
\* with latest.trend_30d_pct = 0 and latest.trend = Sideways, whatever the
\* last close.
C17_ZeroReference ==
    (pc # "idle" /\ Len(close) > 0 /\ IsZero(ReferencePrice)) =>
        /\ Returned
        /\ ret.latest.trend_30d_pct = Float(0)
        /\ ret.latest.trend = "Sideways"

\* close[-30] is 0 and the last close is not
C17_Witness ==
    /\ Returned
    /\ Len(close) >= 30
    /\ IsZero(ReferencePrice)
    /\ ~IsZero(close[Len(close)])
    /\ ret.latest.trend_30d_pct = Float(0)

RsiPhrases == {"RSI Overbought", "RSI Oversold", "RSI Neutral"}

\* C18: there is exactly one RSI phrase when the RSI series has a non-marker
\* value, which is from 15 closes on, and none otherwise; with r the last
\* non-marker value it is the overbought one iff r > 70, the oversold one iff
\* r < 30 and the neutral one otherwise, r = 70 and r = 30 included.
C18_RsiPhrase ==
    Returned =>
        LET shown == PhrasesOf(RsiPhrases)
        IN  /\ HasNonMarker(ret.rsi) <=> Len(close) >= 15
            /\ IF HasNonMarker(ret.rsi)
               THEN LET r == LastNonMarker(ret.rsi)
                    IN  /\ Len(shown) = 1
                        /\ shown[1].phrase = "RSI Overbought" <=> Less(Float(70), r)
                        /\ shown[1].phrase = "RSI Oversold" <=> Less(r, Float(30))
                        /\ shown[1].phrase = "RSI Neutral"
                              <=> (Leq(Float(30), r) /\ Leq(r, Float(70)))
               ELSE Len(shown) = 0

\* an RSI of exactly 70 with the neutral phrase
C18_Witness ==
    /\ Returned
    /\ HasNonMarker(ret.rsi)
    /\ LastNonMarker(ret.rsi) = Float(70)
    /\ Len(PhrasesOf({"RSI Neutral"})) = 1

MacdPhrases == {"MACD above signal line", "MACD below signal line"}

\* the macd and signal series of the returned dict both have an element
MacdPresent == Len(ret.macd.macd) > 0 /\ Len(ret.macd.signal) > 0

\* C19: there is exactly one MACD phrase iff the macd and signal series are
\* both non-empty, which is from 35 closes on, and none otherwise; it is the
\* bullish one iff the last macd value is strictly greater than the last
\* signal value and the bearish one otherwise, equality included.
C19_MacdPhrase ==
    Returned =>
        LET shown == PhrasesOf(MacdPhrases)
        IN  /\ MacdPresent <=> Len(close) >= 35
            /\ IF MacdPresent
               THEN LET last_macd == ret.macd.macd[Len(ret.macd.macd)]
                        last_signal == ret.macd.signal[Len(ret.macd.signal)]
                    IN  /\ Len(shown) = 1
                        /\ shown[1].phrase = "MACD above signal line"
                              <=> Less(last_signal, last_macd)
                        /\ shown[1].phrase = "MACD below signal line"
                              <=> Leq(last_macd, last_signal)
               ELSE Len(shown) = 0

\* the last macd and signal values are equal, not 0, and the phrase is the
\* bearish one
C19_Witness ==
    /\ Returned
    /\ MacdPresent
    /\ ret.macd.macd[Len(ret.macd.macd)] = ret.macd.signal[Len(ret.macd.signal)]
    /\ ~IsZero(ret.macd.macd[Len(ret.macd.macd)])
    /\ Len(PhrasesOf({"MACD below signal line"})) = 1

CrossPhrases == {"Golden Cross active", "Death Cross active"}

\* C20: there is exactly one SMA-cross phrase whenever the SMA50 and SMA200
\* series both have a latest value, which is from 200 closes on, whatever the
\* two values (0 included), and none when either is absent; it is the
\* golden-cross one iff SMA50 > SMA200 and the death-cross one otherwise.
C20_CrossPhrase ==
    Returned =>
        LET shown == PhrasesOf(CrossPhrases)
            present == HasNonMarker(ret.sma_50) /\ HasNonMarker(ret.sma_200)
        IN  /\ present <=> Len(close) >= 200
            /\ IF present
               THEN LET last_sma50 == LastNonMarker(ret.sma_50)
                        last_sma200 == LastNonMarker(ret.sma_200)
                    IN  /\ Len(shown) = 1
                        /\ shown[1].phrase = "Golden Cross active"
                              <=> Less(last_sma200, last_sma50)
                        /\ shown[1].phrase = "Death Cross active"
                              <=> Leq(last_sma50, last_sma200)
               ELSE Len(shown) = 0

BandPhrases ==
    {"Price above upper Bollinger Band", "Price below lower Bollinger Band"}

\* the band lists of the returned dict have an element
BandsPresent == Len(ret.bollinger_bands.upper) > 0

\* C21: when the bands are non-empty, which is from 20 closes on, the phrase
\* for a price above the upper band is emitted iff the last close is strictly
\* above the last upper band, the phrase for a price below the lower band iff
\* it is strictly below the last lower band, and none iff it lies within the
\* bands, whatever the values of the close and the bands, 0 included; when
\* the bands are empty there is no Bollinger phrase.
C21_BandPhrase ==
    Returned =>
        LET shown == PhrasesOf(BandPhrases)
            upper == ret.bollinger_bands.upper
            lower == ret.bollinger_bands.lower
        IN  /\ BandsPresent <=> Len(close) >= 20
            /\ Len(shown) <= 1
            /\ IF BandsPresent
               THEN LET last_close == close[Len(close)]
                        last_bb_upper == upper[Len(upper)]
                        last_bb_lower == lower[Len(lower)]
                    IN  /\ Len(PhrasesOf({"Price above upper Bollinger Band"})) = 1
                              <=> Less(last_bb_upper, last_close)
                        /\ Len(PhrasesOf({"Price below lower Bollinger Band"})) = 1
                              <=> Less(last_close, last_bb_lower)
                        /\ Len(shown) = 0
                              <=> (Leq(last_bb_lower, last_close)
                                     /\ Leq(last_close, last_bb_upper))
               ELSE Len(shown) = 0

\* the category of a phrase: 1 RSI, 2 MACD against its signal line, 3 SMA
\* cross, 4 price against the bands; 0 for anything else
Category(phrase) ==
    IF phrase \in RsiPhrases THEN 1
    ELSE IF phrase \in MacdPhrases THEN 2
    ELSE IF phrase \in CrossPhrases THEN 3
    ELSE IF phrase \in BandPhrases THEN 4
    ELSE 0

\* C22: signals holds phrases of the four categories only, at most one of
\* each, in the order RSI, MACD, SMA cross, Bollinger; so it never has more
\* than 4 entries.
C22_SignalOrder ==
    Returned =>
        /\ \A i \in 1..Len(ret.signals) : Category(ret.signals[i].phrase) \in 1..4
        /\ \A i \in 1..Len(ret.signals), j \in 1..Len(ret.signals) :
              i < j => Category(ret.signals[i].phrase) < Category(ret.signals[j].phrase)
        /\ Len(ret.signals) <= 4

\* a result with a phrase of each category
C22_Witness ==
    /\ Returned
    /\ Len(ret.signals) = 4
    /\ Category(ret.signals[4].phrase) = 4

\* C23: for every close series, the empty one and those shorter than every
\* indicator window included, compute_indicators returns a summary and never
\* raises.
C23_AlwaysReturns ==
    pc # "idle" => (pc = "returned" /\ ret.op = "indicators" /\ ret.data_points = Len(close))

\* C28: the trend label agrees with the percentage reported to 2 decimals:
\* Uptrend implies latest.trend_30d_pct >= 2.0, Downtrend implies
\* latest.trend_30d_pct <= -2.0, and a percentage strictly between -2.0 and
\* 2.0 has the label Sideways.
C28_TrendAgreesWithPct ==
    Returned =>
        LET trend == ret.latest.trend
            shown == ret.latest.trend_30d_pct
        IN  /\ trend = "Uptrend" => Leq(Float(2), shown)
            /\ trend = "Downtrend" => Leq(shown, Float(-2))
            /\ (Less(Float(-2), shown) /\ Less(shown, Float(2))) => trend = "Sideways"

\* an Uptrend whose percentage, above 2, is reported as 2.0
C28_Witness ==
    /\ Returned
    /\ ret.latest.trend = "Uptrend"
    /\ ret.latest.trend_30d_pct = Float(2)
    /\ Less(Float(2), PercentFrom(ReferencePrice))

\* ------------------------------------- claims on the lists of the caller
\* C25: no call changes its input lists: after the call close, dates, high,
\* low and volume have the elements they had before it, in the same order.
C25_InputsUnchanged ==
    [][pc = "idle" => (close' = close /\ others' = others)]_vars

\* two calls were made on a close series that is not empty, and the lists are
\* those the first call was given
C25_Witness ==
    /\ Len(log) = MaxCalls
    /\ Len(close) > 0
    /\ log[1].close = close
    /\ Len(log[1].others.volume) > 0

\* C26: two calls with the same closes and dates and different high, low and
\* volume lists return the same summary, and data_points is len(close).
C26_CloseAlone ==
    /\ \A i \in 1..Len(log), j \in 1..Len(log) :
          (log[i].close = log[j].close /\ log[i].others.dates = log[j].others.dates)
              => log[i].ret = log[j].ret
    /\ \A i \in 1..Len(log) :
          log[i].ret.op = "indicators" /\ Len(log[i].close) > 0
              => log[i].ret.data_points = Len(log[i].close)

\* two calls whose high, low and volume lists all differ returned the same
\* summary
C26_Witness ==
    /\ Len(log) >= 2
    /\ Len(log[1].close) > 0
    /\ log[1].others.dates = log[2].others.dates
    /\ log[1].others.high # log[2].others.high
    /\ log[1].others.low # log[2].others.low
    /\ log[1].others.volume # log[2].others.volume
    /\ log[1].ret = log[2].ret

\* one of the four lists has not the length of close
Misaligned(close_, o) ==
    \/ Len(o.dates) # Len(close_)
    \/ Len(o.high) # Len(close_)
    \/ Len(o.low) # Len(close_)
    \/ Len(o.volume) # Len(close_)

\* C27: a call whose dates, high, low or volume list has not the length of
\* close fails with an error and returns no summary.
C27_MismatchFailsFast ==
    \A i \in 1..Len(log) :
        Misaligned(log[i].close, log[i].others) => ~("latest" \in DOMAIN log[i].ret)

\* ------------------------------------------------ claims on /chat/stream
\* the type of the i-th event sent
TypeAt(i) == events[i].data.type

\* the positions of the events of a type
Positions(type) == {i \in 1..Len(events) : TypeAt(i) = type}

\* C29: a stream ends with exactly one done event, which is the last event
\* sent, on normal completion, when the run raises and when the setup raises
\* before the first event; there is at most one error event and done follows
\* it immediately.
C29_StreamEndsWithDone ==
    /\ Cardinality(Positions("done")) <= 1
    /\ Cardinality(Positions("error")) <= 1
    /\ \A i \in Positions("done") : i = Len(events) /\ spc = "closed"
    /\ \A i \in Positions("error") :
          IF spc = "closed" THEN i + 1 = Len(events) /\ TypeAt(i + 1) = "done"
          ELSE i = Len(events) /\ spc \in {"inner_done", "outer_done"}
    /\ spc = "closed" => (Len(events) > 0 /\ TypeAt(Len(events)) = "done")

\* the setup raised before the first event and the stream is error, done
C29_Witness ==
    /\ spc = "closed"
    /\ parts = 0
    /\ Len(events) = 2
    /\ TypeAt(1) = "error"
    /\ TypeAt(2) = "done"

\* --------------------------------------------- claims on ensure_session
\* C30: whatever the interleaving of the requests, create_session is invoked
\* at most once for a (user_id, session_id), and never for a session that
\* exists.
C30_CreateAtMostOnce ==
    /\ \A i \in 1..Len(creates) : ~creates[i].existed
    /\ \A i \in 1..Len(creates), j \in 1..Len(creates) :
          i < j => creates[i].key # creates[j].key

====
